---- MODULE Spec2Model ----
(***************************************************************************)
(* Model of the scalar root finders of rootfinding.py: root_simple,        *)
(* root_bisection, root_secant and root_tangent, and of the integrators of *)
(* calculus_main.py: trapezoid_rule, adaptive_trapezoid_rule and           *)
(* simpsons_rule.                                                          *)
(*                                                                         *)
(* One behaviour is one call.  Init is the call with its arguments bound,  *)
(* and every action is one piece of the function body: the code before the *)
(* loop, one pass through the loop, or the return after the loop.          *)
(*                                                                         *)
(* Real numbers are exact rationals <<n, d>> in lowest terms with d > 0.   *)
(* The function f is a polynomial c0 + c1*x + c2*x^2 given by its integer  *)
(* coefficients <<c0, c1, c2>>; fp is a caller-supplied d0 + d1*x.         *)
(*                                                                         *)
(* The variable twin is the same call made with the debug flag inverted    *)
(* and advanced in lockstep with run, so that the two calls can be         *)
(* compared state by state.                                                *)
(***************************************************************************)
EXTENDS Integers, Sequences, FiniteSets, TLC

VARIABLES run, twin

vars == <<run, twin>>

----------------------------------------------------------------------------
(* Bounds of the model *)

MaxCoef == 4        \* the constant term of f is in -MaxCoef..1
MaxArg == 3         \* positional arguments are integers in -1..MaxArg
MaxSteps == 2       \* max_steps is drawn from 1..MaxSteps
MaxMag == 40        \* estimates keep numerator and denominator <= MaxMag
MaxN == 4           \* n of trapezoid_rule and simpsons_rule is in 1..MaxN
MaxBound == 2       \* integration bounds are integers in -1..MaxBound
MaxDoublings == 2   \* adaptive_trapezoid_rule is followed up to n = 2^MaxDoublings

----------------------------------------------------------------------------
(* Exact rational arithmetic *)

IAbs(n) == IF n < 0 THEN -n ELSE n

RECURSIVE GCD(_, _)
GCD(a, b) == IF b = 0 THEN a ELSE GCD(b, a % b)

Norm(n, d) ==
    LET g == GCD(IAbs(n), d)
    IN  <<n \div g, d \div g>>

Zero == <<0, 1>>
Two == <<2, 1>>

RNeg(a) == <<-a[1], a[2]>>

RAbs(a) == <<IAbs(a[1]), a[2]>>

RAdd(a, b) ==
    LET g == GCD(a[2], b[2])
    IN  Norm(a[1] * (b[2] \div g) + b[1] * (a[2] \div g), (a[2] \div g) * b[2])

RSub(a, b) == RAdd(a, RNeg(b))

RMul(a, b) ==
    LET g1 == GCD(IAbs(a[1]), b[2])
        g2 == GCD(IAbs(b[1]), a[2])
    IN  Norm((a[1] \div g1) * (b[1] \div g2), (a[2] \div g2) * (b[2] \div g1))

RInv(a) == IF a[1] > 0 THEN <<a[2], a[1]>> ELSE <<-a[2], -a[1]>>

RDiv(a, b) == RMul(a, RInv(b))

RLess(a, b) == a[1] * b[2] < b[1] * a[2]

RLeq(a, b) == a[1] * b[2] <= b[1] * a[2]

Flt(n) == <<n, 1>>

RECURSIVE Pow2(_)
Pow2(k) == IF k = 0 THEN 1 ELSE 2 * Pow2(k - 1)

----------------------------------------------------------------------------
(* The callables f and fp *)

\* f(x) = c0 + c1*x + c2*x^2
Eval(c, x) == RAdd(RMul(RAdd(RMul(Flt(c[3]), x), Flt(c[2])), x), Flt(c[1]))

\* fp(x) = d0 + d1*x
EvalP(d, x) == RAdd(RMul(Flt(d[2]), x), Flt(d[1]))

Funcs == { <<c0, c1, c2>> : c0 \in -MaxCoef..1, c1 \in -1..1, c2 \in 0..1 }

Derivs == { <<d0, d1>> : d0 \in -1..1, d1 \in 0..2 }

Args == { Flt(n) : n \in -1..MaxArg }

Accuracies == { <<1, 4>>, <<1, 1>> }

----------------------------------------------------------------------------
(* The state of one call *)

\* The frame of a call before its first statement: arguments bound, every
\* local still unset (Zero), nothing evaluated yet.  a and b are the two
\* positional arguments after f (and fp): x, dx for root_simple, x1, x2 for
\* root_bisection, x0, x1 for root_secant, x0 for root_tangent.
Frame(alg, f, fp, a, b, accuracy, max_steps, root_debug) ==
    [ alg |-> alg, f |-> f, fp |-> fp, a |-> a, b |-> b,
      accuracy |-> accuracy, max_steps |-> max_steps, root_debug |-> root_debug,
      pc |-> "start", error |-> "none",
      x |-> Zero, dx |-> Zero, f0 |-> Zero, fx |-> Zero,
      x0 |-> Zero, x1 |-> Zero, x2 |-> Zero, f1 |-> Zero, f2 |-> Zero,
      x_mid |-> Zero, f_mid |-> Zero, fp0 |-> Zero,
      step |-> 0, num_steps |-> 0, iterations |-> <<>>,
      root |-> Zero, steps |-> 0,
      \* History of the call, not read by the code:
      \*   updates  how often the estimate was assigned a new value
      \*   passes   loop iterations performed, i.e. passes through the loop
      \*            body that updated the estimate or ran to its end
      \*   fevals   the points at which f was evaluated, in order
      \*   visited  the initial estimate and the estimate after each update
      updates |-> 0, passes |-> 0, fevals |-> <<>>, visited |-> <<>> ]

\* raise Exception(...)
Raise(s, e) == [s EXCEPT !.pc = "raised", !.error = e]

\* return root, np.array(iterations), steps
Return(s, root, steps) == [s EXCEPT !.pc = "returned", !.root = root, !.steps = steps]

\* root_max_steps(algorithm, max_steps)
root_max_steps(s) == Raise(s, "StepBudgetExceeded")

\* Trace with the debug branch also advancing the step counter.
Trace_counting(s, x, y) ==
    IF s.root_debug
    THEN [s EXCEPT !.iterations = Append(@, <<x, y>>), !.step = @ + 1]
    ELSE s

\* if root_debug: root_print_step(...); iterations.append([x, y])
Trace(s, x, y) ==
    IF s.root_debug THEN [s EXCEPT !.iterations = Append(@, <<x, y>>)] ELSE s

----------------------------------------------------------------------------
(* root_simple *)

root_simple_begin(s) ==
    LET f0 == Eval(s.f, s.a)
        t  == [s EXCEPT !.x = s.a, !.dx = s.b, !.f0 = f0, !.fx = f0,
                        !.step = 0, !.iterations = <<>>, !.pc = "loop",
                        !.fevals = <<s.a>>, !.visited = <<s.a>>]
    IN  Trace(t, s.a, f0)

root_simple_cond(s) == RLess(RAbs(s.accuracy), RAbs(s.dx)) /\ s.f0 # Zero

\* root_simple_body halving dx past the root without stepping back.
root_simple_body_nostepback(s) ==
    LET xn   == RAdd(s.x, s.dx)
        fx   == Eval(s.f, xn)
        past == RLess(RMul(s.f0, fx), Zero)
        dx   == IF past THEN RDiv(s.dx, Two) ELSE s.dx
        step == s.step + 1
        t    == [s EXCEPT !.x = xn, !.dx = dx, !.fx = fx, !.step = step,
                          !.updates = @ + 1, !.passes = @ + 1,
                          !.fevals = Append(@, xn), !.visited = Append(@, xn)]
    IN  IF step > s.max_steps THEN root_max_steps(t) ELSE Trace(t, xn, fx)

root_simple_body(s) ==
    LET xn   == RAdd(s.x, s.dx)
        fx   == Eval(s.f, xn)
        past == RLess(RMul(s.f0, fx), Zero)
        x    == IF past THEN RSub(xn, s.dx) ELSE xn
        dx   == IF past THEN RDiv(s.dx, Two) ELSE s.dx
        step == s.step + 1
        t    == [s EXCEPT !.x = x, !.dx = dx, !.fx = fx, !.step = step,
                          !.updates = @ + 1, !.passes = @ + 1,
                          !.fevals = Append(@, xn), !.visited = Append(@, x)]
    IN  IF step > s.max_steps THEN root_max_steps(t) ELSE Trace(t, x, fx)

root_simple_return(s) == Return(s, s.x, s.step)

----------------------------------------------------------------------------
(* root_bisection *)

\* root_bisection_begin with the midpoint evaluated before the bracket test.
root_bisection_begin_midfirst(s) ==
    LET x1    == s.a
        x2    == s.b
        f1    == Eval(s.f, x1)
        f2    == Eval(s.f, x2)
        x_mid == RDiv(RAdd(x1, x2), Two)
        f_mid == Eval(s.f, x_mid)
        t     == [s EXCEPT !.x1 = x1, !.x2 = x2, !.f1 = f1, !.f2 = f2,
                           !.iterations = <<>>,
                           !.x_mid = x_mid, !.f_mid = f_mid,
                           !.dx = RSub(x2, x1), !.step = 0, !.pc = "loop",
                           !.fevals = <<x1, x2, x_mid>>, !.visited = <<x_mid>>]
    IN  IF RLess(Zero, RMul(f1, f2))
        THEN Raise(t, "InvalidBracket")
        ELSE Trace(t, x_mid, f_mid)

root_bisection_begin(s) ==
    LET x1    == s.a
        x2    == s.b
        f1    == Eval(s.f, x1)
        f2    == Eval(s.f, x2)
        x_mid == RDiv(RAdd(x1, x2), Two)
        f_mid == Eval(s.f, x_mid)
        t0    == [s EXCEPT !.x1 = x1, !.x2 = x2, !.f1 = f1, !.f2 = f2,
                           !.iterations = <<>>, !.fevals = <<x1, x2>>]
        t     == [t0 EXCEPT !.x_mid = x_mid, !.f_mid = f_mid,
                            !.dx = RSub(x2, x1), !.step = 0, !.pc = "loop",
                            !.fevals = Append(@, x_mid), !.visited = <<x_mid>>]
    IN  IF RLess(Zero, RMul(f1, f2))
        THEN Raise(t0, "InvalidBracket")
        ELSE Trace(t, x_mid, f_mid)

root_bisection_cond(s) == RLess(s.accuracy, RAbs(s.dx))

\* root_bisection_body replacing x1 when f1 and f_mid differ in sign.
root_bisection_body_swapped(s) ==
    LET left  == RLess(RMul(s.f1, s.f_mid), Zero)
        x1    == IF left THEN s.x_mid ELSE s.x1
        f1    == IF left THEN s.f_mid ELSE s.f1
        x2    == IF left THEN s.x2 ELSE s.x_mid
        f2    == IF left THEN s.f2 ELSE s.f_mid
        x_mid == RDiv(RAdd(x1, x2), Two)
        f_mid == Eval(s.f, x_mid)
        step  == s.step + 1
        t     == IF s.f_mid = Zero
                 THEN [s EXCEPT !.dx = Zero, !.step = step, !.passes = @ + 1]
                 ELSE [s EXCEPT !.x1 = x1, !.f1 = f1, !.x2 = x2, !.f2 = f2,
                                !.x_mid = x_mid, !.f_mid = f_mid,
                                !.dx = RSub(x2, x1), !.step = step,
                                !.updates = @ + 1, !.passes = @ + 1,
                                !.fevals = Append(@, x_mid),
                                !.visited = Append(@, x_mid)]
    IN  IF step > s.max_steps
        THEN Raise(t, "StepBudgetExceeded")
        ELSE Trace(t, t.x_mid, t.f_mid)

\* root_bisection_body taking the midpoint of the bracket before the
\* replacement of the bound.
root_bisection_body_oldmid(s) ==
    LET left  == RLess(Zero, RMul(s.f1, s.f_mid))
        x1    == IF left THEN s.x_mid ELSE s.x1
        f1    == IF left THEN s.f_mid ELSE s.f1
        x2    == IF left THEN s.x2 ELSE s.x_mid
        f2    == IF left THEN s.f2 ELSE s.f_mid
        x_mid == RDiv(RAdd(s.x1, s.x2), Two)
        f_mid == Eval(s.f, x_mid)
        step  == s.step + 1
        t     == IF s.f_mid = Zero
                 THEN [s EXCEPT !.dx = Zero, !.step = step, !.passes = @ + 1]
                 ELSE [s EXCEPT !.x1 = x1, !.f1 = f1, !.x2 = x2, !.f2 = f2,
                                !.x_mid = x_mid, !.f_mid = f_mid,
                                !.dx = RSub(x2, x1), !.step = step,
                                !.updates = @ + 1, !.passes = @ + 1,
                                !.fevals = Append(@, x_mid),
                                !.visited = Append(@, x_mid)]
    IN  IF step > s.max_steps
        THEN Raise(t, "StepBudgetExceeded")
        ELSE Trace(t, t.x_mid, t.f_mid)

root_bisection_body(s) ==
    LET left  == RLess(Zero, RMul(s.f1, s.f_mid))
        x1    == IF left THEN s.x_mid ELSE s.x1
        f1    == IF left THEN s.f_mid ELSE s.f1
        x2    == IF left THEN s.x2 ELSE s.x_mid
        f2    == IF left THEN s.f2 ELSE s.f_mid
        x_mid == RDiv(RAdd(x1, x2), Two)
        f_mid == Eval(s.f, x_mid)
        step  == s.step + 1
        t     == IF s.f_mid = Zero
                 THEN [s EXCEPT !.dx = Zero, !.step = step, !.passes = @ + 1]
                 ELSE [s EXCEPT !.x1 = x1, !.f1 = f1, !.x2 = x2, !.f2 = f2,
                                !.x_mid = x_mid, !.f_mid = f_mid,
                                !.dx = RSub(x2, x1), !.step = step,
                                !.updates = @ + 1, !.passes = @ + 1,
                                !.fevals = Append(@, x_mid),
                                !.visited = Append(@, x_mid)]
    IN  IF step > s.max_steps
        THEN Raise(t, "StepBudgetExceeded")
        ELSE Trace(t, t.x_mid, t.f_mid)

root_bisection_return(s) == Return(s, s.x_mid, s.step)

----------------------------------------------------------------------------
(* root_secant *)

\* root_secant_begin without the early return on f(x0) = 0.
root_secant_begin_nocheck(s) ==
    LET x0 == s.a
        x1 == s.b
        f0 == Eval(s.f, x0)
        t0 == [s EXCEPT !.x0 = x0, !.x1 = x1, !.f0 = f0, !.dx = RSub(x1, x0),
                        !.step = 0, !.num_steps = 0, !.iterations = <<>>,
                        !.pc = "loop", !.fevals = <<x0>>, !.visited = <<x1>>]
    IN  Trace(t0, x0, f0)

root_secant_begin(s) ==
    LET x0 == s.a
        x1 == s.b
        f0 == Eval(s.f, x0)
        t0 == [s EXCEPT !.x0 = x0, !.x1 = x1, !.f0 = f0, !.dx = RSub(x1, x0),
                        !.step = 0, !.num_steps = 0, !.iterations = <<>>,
                        !.pc = "loop", !.fevals = <<x0>>, !.visited = <<x1>>]
        t  == Trace(t0, x0, f0)
    IN  IF f0 = Zero THEN Return(t, x0, t.num_steps) ELSE t

root_secant_cond(s) == RLess(RAbs(s.accuracy), RAbs(s.dx))

\* root_secant_body returning x1 on a horizontal secant instead of raising.
root_secant_body_returns(s) ==
    LET f1 == Eval(s.f, s.x1)
        t1 == [s EXCEPT !.f1 = f1, !.fevals = Append(@, s.x1)]
        dx == RMul(s.dx, RDiv(RNeg(f1), RSub(f1, s.f0)))
        x1 == RAdd(s.x1, dx)
        t  == [t1 EXCEPT !.dx = dx, !.x0 = s.x1, !.f0 = f1, !.x1 = x1,
                         !.step = @ + 1, !.num_steps = @ + 1,
                         !.updates = @ + 1, !.passes = @ + 1,
                         !.visited = Append(@, x1)]
    IN  IF f1 = Zero \/ f1 = s.f0 THEN Return(t1, s.x1, s.num_steps)
        ELSE IF t.step > s.max_steps THEN root_max_steps(t)
        ELSE Trace(t, x1, f1)

\* root_secant_body scaling dx by f1 / (f1 - f0), the minus sign lost.
root_secant_body_nosign(s) ==
    LET f1 == Eval(s.f, s.x1)
        t1 == [s EXCEPT !.f1 = f1, !.fevals = Append(@, s.x1)]
        dx == RMul(s.dx, RDiv(f1, RSub(f1, s.f0)))
        x1 == RAdd(s.x1, dx)
        t  == [t1 EXCEPT !.dx = dx, !.x0 = s.x1, !.f0 = f1, !.x1 = x1,
                         !.step = @ + 1, !.num_steps = @ + 1,
                         !.updates = @ + 1, !.passes = @ + 1,
                         !.visited = Append(@, x1)]
    IN  IF f1 = Zero THEN Return(t1, s.x1, s.num_steps)
        ELSE IF f1 = s.f0 THEN Raise(t1, "HorizontalSecant")
        ELSE IF t.step > s.max_steps THEN root_max_steps(t)
        ELSE Trace(t, x1, f1)

root_secant_body(s) ==
    LET f1 == Eval(s.f, s.x1)
        t1 == [s EXCEPT !.f1 = f1, !.fevals = Append(@, s.x1)]
        dx == RMul(s.dx, RDiv(RNeg(f1), RSub(f1, s.f0)))
        x1 == RAdd(s.x1, dx)
        t  == [t1 EXCEPT !.dx = dx, !.x0 = s.x1, !.f0 = f1, !.x1 = x1,
                         !.step = @ + 1, !.num_steps = @ + 1,
                         !.updates = @ + 1, !.passes = @ + 1,
                         !.visited = Append(@, x1)]
    IN  IF f1 = Zero THEN Return(t1, s.x1, s.num_steps)
        ELSE IF f1 = s.f0 THEN Raise(t1, "HorizontalSecant")
        ELSE IF t.step > s.max_steps THEN root_max_steps(t)
        ELSE Trace(t, x1, f1)

root_secant_return(s) == Return(s, s.x1, s.num_steps)

----------------------------------------------------------------------------
(* root_tangent *)

\* root_tangent_begin with the test for f(x0) = 0 ahead of the test of fp(x0).
root_tangent_begin_rootfirst(s) ==
    LET x0  == s.a
        f0  == Eval(s.f, x0)
        fp0 == EvalP(s.fp, x0)
        t0  == [s EXCEPT !.x0 = x0, !.f0 = f0, !.fp0 = fp0,
                         !.iterations = <<>>, !.fevals = <<x0>>,
                         !.visited = <<x0>>]
        t1  == [t0 EXCEPT !.dx = IF f0 = Zero THEN Zero ELSE RDiv(RNeg(f0), fp0),
                          !.step = 0, !.num_steps = 0, !.pc = "loop"]
        t   == Trace(t1, x0, f0)
    IN  IF f0 = Zero THEN Return(t, x0, t.num_steps)
        ELSE IF fp0 = Zero THEN Raise(t0, "ZeroDerivative")
        ELSE t

root_tangent_begin(s) ==
    LET x0  == s.a
        f0  == Eval(s.f, x0)
        fp0 == EvalP(s.fp, x0)
        t0  == [s EXCEPT !.x0 = x0, !.f0 = f0, !.fp0 = fp0,
                         !.iterations = <<>>, !.fevals = <<x0>>,
                         !.visited = <<x0>>]
        t1  == [t0 EXCEPT !.dx = RDiv(RNeg(f0), fp0), !.step = 0,
                          !.num_steps = 0, !.pc = "loop"]
        t   == Trace(t1, x0, f0)
    IN  IF fp0 = Zero THEN Raise(t0, "ZeroDerivative")
        ELSE IF f0 = Zero THEN Return(t, x0, t.num_steps)
        ELSE t

\* while True
root_tangent_cond(s) == TRUE

\* root_tangent_body returning only on |dx| <= accuracy.
root_tangent_body_dxonly(s) ==
    LET fp0 == EvalP(s.fp, s.x0)
        t0  == [s EXCEPT !.fp0 = fp0]
        dx  == RDiv(RNeg(s.f0), fp0)
        x0  == RAdd(s.x0, dx)
        f0  == Eval(s.f, x0)
        t1  == [t0 EXCEPT !.dx = dx, !.x0 = x0, !.f0 = f0,
                          !.updates = @ + 1, !.passes = @ + 1,
                          !.fevals = Append(@, x0), !.visited = Append(@, x0)]
        t   == [t1 EXCEPT !.step = @ + 1, !.num_steps = @ + 1]
    IN  IF fp0 = Zero THEN Raise(t0, "ZeroDerivative")
        ELSE IF RLeq(RAbs(dx), s.accuracy)
             THEN Return(t1, x0, s.num_steps)
        ELSE IF t.step > s.max_steps THEN root_max_steps(t)
        ELSE Trace(t, x0, f0)

root_tangent_body(s) ==
    LET fp0 == EvalP(s.fp, s.x0)
        t0  == [s EXCEPT !.fp0 = fp0]
        dx  == RDiv(RNeg(s.f0), fp0)
        x0  == RAdd(s.x0, dx)
        f0  == Eval(s.f, x0)
        t1  == [t0 EXCEPT !.dx = dx, !.x0 = x0, !.f0 = f0,
                          !.updates = @ + 1, !.passes = @ + 1,
                          !.fevals = Append(@, x0), !.visited = Append(@, x0)]
        t   == [t1 EXCEPT !.step = @ + 1, !.num_steps = @ + 1]
    IN  IF fp0 = Zero THEN Raise(t0, "ZeroDerivative")
        ELSE IF RLeq(RAbs(dx), s.accuracy) \/ f0 = Zero
             THEN Return(t1, x0, s.num_steps)
        ELSE IF t.step > s.max_steps THEN root_max_steps(t)
        ELSE Trace(t, x0, f0)

----------------------------------------------------------------------------
(* The calls *)

Begin(s) ==
    CASE s.alg = "root_simple"    -> root_simple_begin(s)
      [] s.alg = "root_bisection" -> root_bisection_begin(s)
      [] s.alg = "root_secant"    -> root_secant_begin(s)
      [] s.alg = "root_tangent"   -> root_tangent_begin(s)

Cond(s) ==
    CASE s.alg = "root_simple"    -> root_simple_cond(s)
      [] s.alg = "root_bisection" -> root_bisection_cond(s)
      [] s.alg = "root_secant"    -> root_secant_cond(s)
      [] s.alg = "root_tangent"   -> root_tangent_cond(s)

Body(s) ==
    CASE s.alg = "root_simple"    -> root_simple_body(s)
      [] s.alg = "root_bisection" -> root_bisection_body(s)
      [] s.alg = "root_secant"    -> root_secant_body(s)
      [] s.alg = "root_tangent"   -> root_tangent_body(s)

After(s) ==
    CASE s.alg = "root_simple"    -> root_simple_return(s)
      [] s.alg = "root_bisection" -> root_bisection_return(s)
      [] s.alg = "root_secant"    -> root_secant_return(s)
      [] s.alg = "root_tangent"   -> s

\* The next piece of the function body from wherever the call s stands.
Advance(s) ==
    CASE s.pc = "start" -> Begin(s)
      [] s.pc = "loop"  -> IF Cond(s) THEN Body(s) ELSE After(s)
      [] OTHER          -> s

\* The estimates of the state stay within the modelled range of numbers.
InRange(r) == IAbs(r[1]) <= MaxMag /\ r[2] <= MaxMag

Fits(s) == \A r \in {s.x, s.dx, s.x0, s.x1, s.x2, s.x_mid} : InRange(r)

NoFp == <<0, 0>>

\* A call of root_simple, root_bisection or root_secant.
CallTwoPoint(s) ==
    \E alg \in {"root_simple", "root_bisection", "root_secant"},
       f \in Funcs, a \in Args, b \in Args, acc \in Accuracies,
       ms \in 1..MaxSteps, dbg \in BOOLEAN :
        s = Frame(alg, f, NoFp, a, b, acc, ms, dbg)

\* A call of root_tangent.
CallTangent(s) ==
    \E f \in Funcs, fp \in Derivs, a \in Args, acc \in Accuracies,
       ms \in 1..MaxSteps, dbg \in BOOLEAN :
        s = Frame("root_tangent", f, fp, a, Zero, acc, ms, dbg)

Init ==
    /\ CallTwoPoint(run) \/ CallTangent(run)
    /\ twin = [run EXCEPT !.root_debug = ~@]

RootSimpleBegin == run.alg = "root_simple" /\ run.pc = "start"
                   /\ run' = root_simple_begin(run) /\ twin' = Advance(twin)

RootSimpleLoop == run.alg = "root_simple" /\ run.pc = "loop"
                  /\ root_simple_cond(run) /\ run' = root_simple_body(run)
                  /\ Fits(run') /\ twin' = Advance(twin)

RootSimpleReturn == run.alg = "root_simple" /\ run.pc = "loop"
                    /\ ~root_simple_cond(run)
                    /\ run' = root_simple_return(run) /\ twin' = Advance(twin)

RootBisectionBegin == run.alg = "root_bisection" /\ run.pc = "start"
                      /\ run' = root_bisection_begin(run) /\ twin' = Advance(twin)

RootBisectionLoop == run.alg = "root_bisection" /\ run.pc = "loop"
                     /\ root_bisection_cond(run) /\ run' = root_bisection_body(run)
                     /\ Fits(run') /\ twin' = Advance(twin)

RootBisectionReturn == run.alg = "root_bisection" /\ run.pc = "loop"
                       /\ ~root_bisection_cond(run)
                       /\ run' = root_bisection_return(run) /\ twin' = Advance(twin)

RootSecantBegin == run.alg = "root_secant" /\ run.pc = "start"
                   /\ run' = root_secant_begin(run) /\ twin' = Advance(twin)

RootSecantLoop == run.alg = "root_secant" /\ run.pc = "loop"
                  /\ root_secant_cond(run) /\ run' = root_secant_body(run)
                  /\ Fits(run') /\ twin' = Advance(twin)

RootSecantReturn == run.alg = "root_secant" /\ run.pc = "loop"
                    /\ ~root_secant_cond(run)
                    /\ run' = root_secant_return(run) /\ twin' = Advance(twin)

RootTangentBegin == run.alg = "root_tangent" /\ run.pc = "start"
                    /\ run' = root_tangent_begin(run) /\ twin' = Advance(twin)

RootTangentLoop == run.alg = "root_tangent" /\ run.pc = "loop"
                   /\ root_tangent_cond(run) /\ run' = root_tangent_body(run)
                   /\ Fits(run') /\ twin' = Advance(twin)

Next ==
    \/ RootSimpleBegin
    \/ RootSimpleLoop
    \/ RootSimpleReturn
    \/ RootBisectionBegin
    \/ RootBisectionLoop
    \/ RootBisectionReturn
    \/ RootSecantBegin
    \/ RootSecantLoop
    \/ RootSecantReturn
    \/ RootTangentBegin
    \/ RootTangentLoop

Spec == Init /\ [][Next]_vars

----------------------------------------------------------------------------
(* The integrators *)

\* func(x), the integrand being c0 + c1*x + c2*x^2 + c3*x^3.
Call(func, x) ==
    RAdd(RMul(RAdd(RMul(RAdd(RMul(Flt(func[4]), x), Flt(func[3])), x),
                   Flt(func[2])), x), Flt(func[1]))

Integrands ==
    { <<c0, c1, c2, c3>> : c0 \in -1..1, c1 \in -1..1, c2 \in 0..1, c3 \in 0..1 }

Bounds == { Flt(n) : n \in -1..MaxBound }

Epsilons == { Zero, <<1, 4>>, <<1, 1>> }

\* len(range(start, stop, step))
RangeLen(start, stop, step) ==
    Cardinality({ i \in start..(stop - 1) : (i - start) % step = 0 })

\* for i in range(i, stop, step): result += func(a + i * h)
RECURSIVE Samples(_, _, _, _, _, _)
Samples(func, a, h, i, stop, step) ==
    IF i >= stop
    THEN Zero
    ELSE RAdd(Call(func, RAdd(a, RMul(Flt(i), h))),
              Samples(func, a, h, i + step, stop, step))

\* trapezoid_rule with the loop over range(1, n - 1).
trapezoid_rule_shortsum(func, a, b, n) ==
    LET h      == RDiv(RSub(b, a), Flt(n))
        result == RMul(<<1, 2>>, RAdd(Call(func, a), Call(func, b)))
    IN  RMul(RAdd(result, Samples(func, a, h, 1, n - 1, 1)), h)

\* calculus_main.py, lines 14-22
trapezoid_rule(func, a, b, n) ==
    LET h      == RDiv(RSub(b, a), Flt(n))
        result == RMul(<<1, 2>>, RAdd(Call(func, a), Call(func, b)))
    IN  RMul(RAdd(result, Samples(func, a, h, 1, n, 1)), h)

\* The integrand evaluations of one trapezoid_rule call: func(a), func(b)
\* and one per pass of the loop.
trapezoid_rule_evals(n) == 2 + RangeLen(1, n, 1)

\* simpsons_rule with the second loop over range(2, n - 2, 2).
simpsons_rule_evenshort(func, a, b, n) ==
    LET h      == RDiv(RSub(b, a), Flt(n))
        result == RAdd(Call(func, a), Call(func, b))
        odd    == RMul(Flt(4), Samples(func, a, h, 1, n, 2))
        even   == RMul(Flt(2), Samples(func, a, h, 2, n - 2, 2))
    IN  RMul(RAdd(RAdd(result, odd), even), RDiv(h, Flt(3)))

\* calculus_main.py, lines 64-75
simpsons_rule(func, a, b, n) ==
    LET h      == RDiv(RSub(b, a), Flt(n))
        result == RAdd(Call(func, a), Call(func, b))
        odd    == RMul(Flt(4), Samples(func, a, h, 1, n, 2))
        even   == RMul(Flt(2), Samples(func, a, h, 2, n - 1, 2))
    IN  RMul(RAdd(RAdd(result, odd), even), RDiv(h, Flt(3)))

\* The frame of an integrator call before its first statement.  n is an
\* argument of trapezoid_rule and simpsons_rule and a local of
\* adaptive_trapezoid_rule; epsilon is an argument of the latter only.
\* evals and refinements are history: the integrand evaluations made and
\* the passes through the loop of adaptive_trapezoid_rule.
QuadFrame(alg, func, a, b, n, epsilon) ==
    [ alg |-> alg, func |-> func, a |-> a, b |-> b, n |-> n,
      epsilon |-> epsilon, pc |-> "start",
      result |-> Zero, old_result |-> Zero, evals |-> 0, refinements |-> 0 ]

\* lines 38-40
adaptive_trapezoid_rule_begin(s) ==
    [s EXCEPT !.pc = "loop", !.n = 1, !.old_result = Zero,
              !.result = trapezoid_rule(s.func, s.a, s.b, 1),
              !.evals = @ + trapezoid_rule_evals(1)]

\* line 43
adaptive_trapezoid_rule_cond(s) ==
    RLess(s.epsilon, RAbs(RSub(s.result, s.old_result)))

\* lines 44-46
adaptive_trapezoid_rule_body(s) ==
    [s EXCEPT !.n = 2 * @, !.old_result = s.result,
              !.result = trapezoid_rule(s.func, s.a, s.b, 2 * s.n),
              !.evals = @ + trapezoid_rule_evals(2 * s.n),
              !.refinements = @ + 1]

\* line 48
adaptive_trapezoid_rule_return(s) == [s EXCEPT !.pc = "returned"]

\* A call of trapezoid_rule or simpsons_rule.
CallRule(s) ==
    \E alg \in {"trapezoid_rule", "simpsons_rule"}, func \in Integrands,
       a \in Bounds, b \in Bounds, n \in 1..MaxN :
        s = QuadFrame(alg, func, a, b, n, Zero)

\* A call of adaptive_trapezoid_rule.
CallAdaptive(s) ==
    \E func \in Integrands, a \in Bounds, b \in Bounds, epsilon \in Epsilons :
        s = QuadFrame("adaptive_trapezoid_rule", func, a, b, 0, epsilon)

\* The integrators have no debug flag: the twin is the call itself.
InitQuad ==
    /\ CallRule(run) \/ CallAdaptive(run)
    /\ twin = run

TrapezoidRule ==
    /\ run.alg = "trapezoid_rule" /\ run.pc = "start"
    /\ run' = [run EXCEPT !.pc = "returned",
                          !.result = trapezoid_rule(run.func, run.a, run.b, run.n),
                          !.evals = @ + trapezoid_rule_evals(run.n)]
    /\ twin' = run'

SimpsonsRule ==
    /\ run.alg = "simpsons_rule" /\ run.pc = "start"
    /\ run' = [run EXCEPT !.pc = "returned",
                          !.result = simpsons_rule(run.func, run.a, run.b, run.n),
                          !.evals = @ + 2 + RangeLen(1, run.n, 2)
                                      + RangeLen(2, run.n - 1, 2)]
    /\ twin' = run'

AdaptiveTrapezoidRuleBegin ==
    /\ run.alg = "adaptive_trapezoid_rule" /\ run.pc = "start"
    /\ run' = adaptive_trapezoid_rule_begin(run)
    /\ twin' = run'

\* The code doubles n without limit; the model follows it up to
\* n = 2^MaxDoublings.
AdaptiveTrapezoidRuleLoop ==
    /\ run.alg = "adaptive_trapezoid_rule" /\ run.pc = "loop"
    /\ adaptive_trapezoid_rule_cond(run)
    /\ run.refinements < MaxDoublings
    /\ run' = adaptive_trapezoid_rule_body(run)
    /\ twin' = run'

AdaptiveTrapezoidRuleReturn ==
    /\ run.alg = "adaptive_trapezoid_rule" /\ run.pc = "loop"
    /\ ~adaptive_trapezoid_rule_cond(run)
    /\ run' = adaptive_trapezoid_rule_return(run)
    /\ twin' = run'

NextQuad ==
    \/ TrapezoidRule
    \/ SimpsonsRule
    \/ AdaptiveTrapezoidRuleBegin
    \/ AdaptiveTrapezoidRuleLoop
    \/ AdaptiveTrapezoidRuleReturn

SpecQuad == InitQuad /\ [][NextQuad]_vars

----------------------------------------------------------------------------
(* Properties *)

\* The estimate the call currently holds (the argument before the first
\* statement has bound the local).
Estimate(s) ==
    CASE s.alg = "root_simple"    -> IF s.pc = "start" THEN s.a ELSE s.x
      [] s.alg = "root_bisection" -> s.x_mid
      [] s.alg = "root_secant"    -> IF s.pc = "start" THEN s.b ELSE s.x1
      [] s.alg = "root_tangent"   -> IF s.pc = "start" THEN s.a ELSE s.x0

Running(s) == s.pc \in {"start", "loop"}

\* C1: a call that returns has updated its estimate at most max_steps times,
\* and a call that has gone past max_steps updates has failed with the
\* step-budget-exceeded error rather than returned.
C1_StepBudget ==
    /\ run.pc = "returned" => run.updates <= run.max_steps
    /\ run.updates > run.max_steps =>
           run.pc = "raised" /\ run.error = "StepBudgetExceeded"

\* C2: the step count in a returned result is the number of loop iterations
\* the call performed.
C2_StepCount == run.pc = "returned" => run.steps = run.passes

\* C3: root_bisection with f(x1)*f(x2) > 0 raises the bracket error, has
\* evaluated f at x1 and at x2 and nowhere else, and returns nothing.
C3_InvalidBracket ==
    (/\ run.alg = "root_bisection"
     /\ run.pc # "start"
     /\ RLess(Zero, RMul(Eval(run.f, run.a), Eval(run.f, run.b))))
    => /\ run.pc = "raised"
       /\ run.error = "InvalidBracket"
       /\ run.fevals = <<run.a, run.b>>
       /\ run.updates = 0

C3_Witness ==
    /\ run.alg = "root_bisection"
    /\ run.pc = "raised"
    /\ run.error = "InvalidBracket"
    /\ run.a # run.b

\* C4: whenever fp is zero at the estimate root_tangent holds, at the initial
\* guess (whatever f is there) or in a later iteration, the next step of the
\* call raises the zero-derivative error and leaves the estimate as it was.
C4_ZeroDerivative ==
    [][ (/\ run.alg = "root_tangent"
         /\ Running(run)
         /\ EvalP(run.fp, Estimate(run)) = Zero)
        => /\ run'.pc = "raised"
           /\ run'.error = "ZeroDerivative"
           /\ run'.updates = run.updates
           /\ Estimate(run') = Estimate(run) ]_vars

C4_Witness ==
    /\ run.alg = "root_tangent"
    /\ run.error = "ZeroDerivative"
    /\ run.updates >= 1

\* C5: root_simple stops as soon as |dx| <= accuracy or f is zero at the
\* current x, also when the zero was reached by a step of the search: its
\* next step is the return of that x.
C5_StopsOnZero ==
    [][ (/\ run.alg = "root_simple"
         /\ run.pc = "loop"
         /\ \/ RLeq(RAbs(run.dx), RAbs(run.accuracy))
            \/ Eval(run.f, run.x) = Zero)
        => /\ run'.pc = "returned"
           /\ run'.root = run.x ]_vars

\* C6: root_bisection returns x_mid with f(x_mid) = 0, or the midpoint of a
\* final bracket [x1, x2] no wider than accuracy with f(x1)*f(x2) <= 0.
C6_BisectionResult ==
    (run.alg = "root_bisection" /\ run.pc = "returned")
    => \/ Eval(run.f, run.root) = Zero
       \/ /\ run.root = RDiv(RAdd(run.x1, run.x2), Two)
          /\ RLeq(RAbs(RSub(run.x2, run.x1)), run.accuracy)
          /\ RLeq(RMul(Eval(run.f, run.x1), Eval(run.f, run.x2)), Zero)

C6_Witness ==
    /\ run.alg = "root_bisection"
    /\ run.pc = "returned"
    /\ run.updates >= 2
    /\ Eval(run.f, run.root) # Zero

\* The Newton correction f(x)/fp(x) at x.
Correction(s, x) == RDiv(Eval(s.f, x), EvalP(s.fp, x))

\* The i-th update of root_tangent met the return criterion.
Met(s, i) ==
    \/ RLeq(RAbs(Correction(s, s.visited[i])), s.accuracy)
    \/ Eval(s.f, s.visited[i + 1]) = Zero

\* C7: root_tangent returns x0 with step count 0 when f(x0) = 0; otherwise
\* every update is the Newton update, no update before the last met the
\* return criterion, and the call returns exactly when the last one did,
\* with the estimate that update produced.
C7_TangentResult ==
    (run.alg = "root_tangent" /\ run.pc \in {"loop", "returned"})
    => LET n == Len(run.visited)
       IN  /\ run.visited[1] = run.a
           /\ \A i \in 1..(n - 1) :
                  /\ run.visited[i + 1] =
                         RSub(run.visited[i], Correction(run, run.visited[i]))
                  /\ Met(run, i) <=> (i = n - 1 /\ run.pc = "returned")
           /\ (Eval(run.f, run.a) = Zero) <=> (n = 1 /\ run.pc = "returned")
           /\ run.pc = "returned" =>
                  /\ run.root = run.visited[n]
                  /\ n = 1 => run.steps = 0

C7_Witness ==
    /\ run.alg = "root_tangent"
    /\ run.pc = "returned"
    /\ run.updates >= 2
    /\ Eval(run.f, run.root) # Zero

\* C8: when root_secant enters an iteration (|x1 - x0| > accuracy) with the
\* two most recent function values equal and nonzero, its next step raises
\* the horizontal-secant error; nothing is returned and nothing is updated.
C8_HorizontalSecant ==
    [][ (/\ run.alg = "root_secant"
         /\ run.pc = "loop"
         /\ RLess(run.accuracy, RAbs(RSub(run.x1, run.x0)))
         /\ Eval(run.f, run.x1) = Eval(run.f, run.x0)
         /\ Eval(run.f, run.x1) # Zero)
        => /\ run'.pc = "raised"
           /\ run'.error = "HorizontalSecant"
           /\ run'.updates = run.updates ]_vars

C8_Witness ==
    /\ run.alg = "root_secant"
    /\ run.error = "HorizontalSecant"
    /\ run.updates >= 1

\* C9: root_secant returns x0 with step count 0 when f(x0) = 0, having
\* evaluated f at x0 only; and returns x1 with step count 0 when f(x0) # 0
\* and f(x1) = 0.  Neither case updates the estimate or raises.
C9_SecantEndpoints ==
    (run.alg = "root_secant" /\ run.pc # "start")
    => /\ Eval(run.f, run.a) = Zero =>
              /\ run.pc = "returned"
              /\ run.root = run.a
              /\ run.steps = 0
              /\ run.updates = 0
              /\ run.fevals = <<run.a>>
       /\ (Eval(run.f, run.a) # Zero /\ Eval(run.f, run.b) = Zero) =>
              /\ run.pc \in {"loop", "returned"}
              /\ run.pc = "loop" => run.fevals = <<run.a>>
              /\ run.pc = "returned" => run.root = run.b /\ run.steps = 0
              /\ run.updates = 0

C9_Witness ==
    /\ run.alg = "root_secant"
    /\ run.pc = "returned"
    /\ Eval(run.f, run.a) # Zero
    /\ run.root = run.b
    /\ run.fevals = <<run.a, run.b>>

\* C10: the call with the debug flag set and the call with it cleared stand
\* at the same place after every step: same root and step count returned,
\* or same error raised after the same number of iterations.
C10_DebugIndependent ==
    /\ twin.root_debug # run.root_debug
    /\ twin.pc = run.pc
    /\ twin.error = run.error
    /\ twin.root = run.root
    /\ twin.steps = run.steps
    /\ twin.updates = run.updates
    /\ twin.passes = run.passes
    /\ Estimate(twin) = Estimate(run)

C10_Witness ==
    /\ run.root_debug
    /\ run.pc = "returned"
    /\ run.steps >= 2
    /\ Len(run.iterations) >= 3
    /\ twin.iterations = <<>>

\* C11: with the debug flag set, every entry (x, y) of the returned trace
\* has y = f(x).
C11_TraceValues ==
    (run.pc = "returned" /\ run.root_debug)
    => \A i \in 1..Len(run.iterations) :
           run.iterations[i][2] = Eval(run.f, run.iterations[i][1])

\* C12: with the debug flag set, the returned trace holds the initial guess
\* and one entry for every iteration performed, and when the estimate was
\* updated at least once its last entry holds the returned root.
C12_TraceLength ==
    (run.pc = "returned" /\ run.root_debug)
    => /\ Len(run.iterations) = 1 + run.passes
       /\ run.updates >= 1 =>
              run.iterations[Len(run.iterations)][1] = run.root

AdaptiveReturned == run.alg = "adaptive_trapezoid_rule" /\ run.pc = "returned"

\* C13: adaptive_trapezoid_rule returns the trapezoid estimate for some 2n
\* subintervals (n >= 1) that differs from the estimate for n subintervals
\* by at most epsilon; the n = 1 estimate is never returned.
C13_ComparedRefinement ==
    AdaptiveReturned
    => \E n \in 1..Pow2(MaxDoublings) :
           /\ run.n = 2 * n
           /\ run.result = trapezoid_rule(run.func, run.a, run.b, 2 * n)
           /\ RLeq(RAbs(RSub(run.result,
                             trapezoid_rule(run.func, run.a, run.b, n))),
                   run.epsilon)

\* C14: a cap on the number of doublings ends adaptive_trapezoid_rule: once
\* MaxDoublings refinements are done the call is not about to refine again.
C14_DoublingsCapped ==
    ~ /\ run.alg = "adaptive_trapezoid_rule"
      /\ run.pc = "loop"
      /\ run.refinements >= MaxDoublings
      /\ adaptive_trapezoid_rule_cond(run)

\* C15: a call of adaptive_trapezoid_rule that ends with n subintervals has
\* evaluated the integrand n + 1 times, each sample point once.
C15_EvaluatedOnce == AdaptiveReturned => run.evals = run.n + 1

\* The sum of func(a + i*h) over i = 1..k.
RECURSIVE Interior(_, _, _, _)
Interior(func, a, h, k) ==
    IF k <= 0 THEN Zero
    ELSE RAdd(Interior(func, a, h, k - 1), Call(func, RAdd(a, RMul(Flt(k), h))))

\* C16: trapezoid_rule returns h*(f(a)/2 + sum_{i=1..n-1} f(a+i*h) + f(b)/2)
\* with h = (b-a)/n, which for an integrand of degree <= 1 is
\* (b-a)*(f(a)+f(b))/2 whatever n.
C16_TrapezoidExact ==
    (run.alg = "trapezoid_rule" /\ run.pc = "returned")
    => LET h  == RDiv(RSub(run.b, run.a), Flt(run.n))
           fa == Call(run.func, run.a)
           fb == Call(run.func, run.b)
       IN  /\ run.result =
                  RMul(h, RAdd(RAdd(RDiv(fa, Two),
                                    Interior(run.func, run.a, h, run.n - 1)),
                               RDiv(fb, Two)))
           /\ (run.func[3] = 0 /\ run.func[4] = 0)
              => run.result = RDiv(RMul(RSub(run.b, run.a), RAdd(fa, fb)), Two)

C16_Witness ==
    /\ run.alg = "trapezoid_rule"
    /\ run.pc = "returned"
    /\ run.n >= 3
    /\ run.func[2] # 0 /\ run.func[3] = 0 /\ run.func[4] = 0
    /\ run.a # run.b
    /\ run.result # Zero

\* The sum of w(i)*func(a + i*h) over i = 1..k, w(i) being 4 for odd i and
\* 2 for even i.
RECURSIVE Weighted(_, _, _, _)
Weighted(func, a, h, k) ==
    IF k <= 0 THEN Zero
    ELSE RAdd(Weighted(func, a, h, k - 1),
              RMul(Flt(IF k % 2 = 1 THEN 4 ELSE 2),
                   Call(func, RAdd(a, RMul(Flt(k), h)))))

\* The antiderivative c0*x + c1*x^2/2 + c2*x^3/3 + c3*x^4/4 of the integrand.
Primitive(func, x) ==
    LET x2 == RMul(x, x)
    IN  RAdd(RAdd(RMul(Flt(func[1]), x), RMul(RDiv(Flt(func[2]), Flt(2)), x2)),
             RAdd(RMul(RDiv(Flt(func[3]), Flt(3)), RMul(x2, x)),
                  RMul(RDiv(Flt(func[4]), Flt(4)), RMul(x2, x2))))

\* C17: for even n simpsons_rule returns h/3 times the samples weighted 1 at
\* a and b, 4 at odd and 2 at even interior indices, which is the exact
\* integral of every integrand of degree <= 3.
C17_SimpsonExact ==
    (run.alg = "simpsons_rule" /\ run.pc = "returned" /\ run.n % 2 = 0)
    => LET h == RDiv(RSub(run.b, run.a), Flt(run.n))
       IN  /\ run.result =
                  RMul(RDiv(h, Flt(3)),
                       RAdd(RAdd(Call(run.func, run.a), Call(run.func, run.b)),
                            Weighted(run.func, run.a, h, run.n - 1)))
           /\ run.result = RSub(Primitive(run.func, run.b),
                                Primitive(run.func, run.a))

C17_Witness ==
    /\ run.alg = "simpsons_rule"
    /\ run.pc = "returned"
    /\ run.n >= 4 /\ run.n % 2 = 0
    /\ run.func[4] # 0
    /\ run.a # run.b
    /\ run.result # Zero

Sign(r) == IF r[1] > 0 THEN 1 ELSE IF r[1] < 0 THEN -1 ELSE 0

RMin(p, q) == IF RLess(q, p) THEN q ELSE p

RMax(p, q) == IF RLess(p, q) THEN q ELSE p

\* What every pass of root_bisection does to the bracket [x1, x2] of s,
\* t being the state after the pass: the bracket at the start of the pass
\* has f(x1)*f(x2) <= 0 and the initial width divided by 2^updates, and a
\* pass with a nonzero midpoint value yields half the width inside it.
BracketHalved(s, t) ==
    /\ RLeq(RMul(Eval(s.f, s.x1), Eval(s.f, s.x2)), Zero)
    /\ RMul(RAbs(RSub(s.x2, s.x1)), Flt(Pow2(s.updates))) = RAbs(RSub(s.b, s.a))
    /\ Eval(s.f, s.x_mid) # Zero =>
           /\ RMul(RAbs(RSub(t.x2, t.x1)), Two) = RAbs(RSub(s.x2, s.x1))
           /\ RLeq(RMin(s.x1, s.x2), RMin(t.x1, t.x2))
           /\ RLeq(RMax(t.x1, t.x2), RMax(s.x1, s.x2))
           /\ RLeq(RMul(Eval(s.f, t.x1), Eval(s.f, t.x2)), Zero)
           /\ t.updates = s.updates + 1

BisectionPass == run.alg = "root_bisection" /\ run.pc = "loop" /\ run'.pc # "returned"

\* C18 as claimed: every pass of root_bisection starts with f(x1)*f(x2) <= 0
\* and a width of the initial width over 2^k; a pass with a nonzero midpoint
\* value replaces exactly one bound by the midpoint, the bound whose function
\* value has the sign of the midpoint's, and halves the width inside the
\* previous bracket.
C18_SignOfMidpoint ==
    [][ BisectionPass =>
        /\ BracketHalved(run, run')
        /\ Eval(run.f, run.x_mid) # Zero =>
               \/ /\ run'.x1 = run.x_mid /\ run'.x2 = run.x2
                  /\ Sign(Eval(run.f, run.x1)) = Sign(Eval(run.f, run.x_mid))
               \/ /\ run'.x2 = run.x_mid /\ run'.x1 = run.x1
                  /\ Sign(Eval(run.f, run.x2)) = Sign(Eval(run.f, run.x_mid))
      ]_vars

\* C18 as amended: as above, but the bound replaced is x1 when
\* f(x1)*f(x_mid) > 0 and x2 otherwise; its function value has the sign of
\* the midpoint's whenever neither f(x1) nor f(x2) is zero.
C18_BisectionStep ==
    [][ BisectionPass =>
        /\ BracketHalved(run, run')
        /\ Eval(run.f, run.x_mid) # Zero =>
               LET same == RLess(Zero, RMul(Eval(run.f, run.x1),
                                           Eval(run.f, run.x_mid)))
                   open == Eval(run.f, run.x1) # Zero /\ Eval(run.f, run.x2) # Zero
               IN  \/ /\ same
                      /\ run'.x1 = run.x_mid /\ run'.x2 = run.x2
                   \/ /\ ~same
                      /\ run'.x2 = run.x_mid /\ run'.x1 = run.x1
                      /\ open => Sign(Eval(run.f, run.x2)) =
                                     Sign(Eval(run.f, run.x_mid))
      ]_vars

C18_Witness ==
    /\ run.alg = "root_bisection"
    /\ run.updates >= 2
    /\ run.x1 # run.a
    /\ run.x2 # run.b

\* C19: every root_secant iteration that updates the estimate replaces
\* (x0, x1) by (x1, x1 - f(x1)*(x1 - x0)/(f(x1) - f(x0))), and dx = x1 - x0
\* holds before and after it.
C19_SecantStep ==
    [][ (/\ run.alg = "root_secant"
         /\ run.pc = "loop"
         /\ run'.updates = run.updates + 1)
        => /\ run.dx = RSub(run.x1, run.x0)
           /\ run'.x0 = run.x1
           /\ run'.x1 = RSub(run.x1,
                             RDiv(RMul(Eval(run.f, run.x1), RSub(run.x1, run.x0)),
                                  RSub(Eval(run.f, run.x1), Eval(run.f, run.x0))))
           /\ run'.dx = RSub(run'.x1, run'.x0) ]_vars

C19_Witness ==
    /\ run.alg = "root_secant"
    /\ run.updates >= 2
    /\ run.pc = "returned"

\* The state root_simple returns in: dx halved at least once and within the
\* accuracy, x on the starting side of a sign change that x + 2*dx is past.
C20_Returned ==
    /\ \E j \in 1..run.passes : RMul(run.dx, Flt(Pow2(j))) = run.b
    /\ RLeq(RAbs(run.dx), RAbs(run.accuracy))
    /\ RLeq(Zero, RMul(Eval(run.f, run.a), Eval(run.f, run.root)))
    /\ RLess(RMul(Eval(run.f, run.a),
                  Eval(run.f, RAdd(run.root, RMul(Two, run.dx)))), Zero)

\* C20: in root_simple started with f(x0) # 0 and |dx| > accuracy, dx is
\* always the initial dx halved some number of times (so of the initial
\* sign), and the call returns an x with f(x0)*f(x) >= 0 and
\* f(x0)*f(x + 2*dx) < 0, where |dx| <= accuracy.
C20_SimpleResult ==
    (/\ run.alg = "root_simple"
     /\ run.pc \in {"loop", "returned"}
     /\ Eval(run.f, run.a) # Zero
     /\ RLess(RAbs(run.accuracy), RAbs(run.b)))
    => /\ \E j \in 0..run.passes : RMul(run.dx, Flt(Pow2(j))) = run.b
       /\ run.pc = "returned" => C20_Returned

C20_Witness ==
    /\ run.alg = "root_simple"
    /\ run.pc = "returned"
    /\ Eval(run.f, run.a) # Zero
    /\ RLess(RAbs(run.accuracy), RAbs(run.b))
    /\ run.root # run.a
    /\ run.passes >= 2

====
